---- MODULE Spec2Model ----
(***************************************************************************)
(* Model of app.py of flor-de-maria-supply: the inventory text parser      *)
(* parse_inventory_file (src/app.py:24-85), the first import of the        *)
(* program start (117-135, 423-460) and the handlers update_product        *)
(* (169-203) and api_import (224-249) on the PostgreSQL tables (87-115).   *)
(*                                                                         *)
(* A string is a sequence of one-character strings.  A file is a sequence  *)
(* of raw lines as the file iterator yields them: with universal newlines  *)
(* a raw line holds "\n" as its last character or not at all.              *)
(***************************************************************************)
EXTENDS Integers, Sequences, FiniteSets, TLC

\* ------------------------------------------------------------------ bounds

\* Longest raw line of the exhaustive single-line inputs.
MaxLen == 5

\* Most pieces in a raw line put together from Pieces.
MaxPieces == 5

\* Most lines in one file of the multi-line inputs.
MaxLines == 2

\* Most requests the server receives.
MaxRequests == 2

\* Most starts of the program.
MaxStarts == 2

\* An INTEGER column of PostgreSQL holds -2147483648..2147483647 and a
\* statement that is given more raises; the range is scaled down to
\* -IntegerMax - 1..IntegerMax so that a quantity the parser or a form
\* accepts can fall out of it.
IntegerMax == 3

\* CPython's int() raises ValueError on a digit string longer than
\* sys.get_int_max_str_digits() (4300 by default); the limit is scaled down
\* to this many digits so that a raising line fits the line bound.
IntMaxStrDigits == 2

\* --------------------------------------------------------------- characters

Digits == {"0", "1"}

Whitespace == {" ", "\n"}

\* The characters of the exhaustive inputs: two digits, a blank, a letter,
\* the period and a sign; the comma comes in with the prices of Pieces and
\* the line terminator with Terminated.
Alphabet == Digits \cup {" ", "a", ".", "-"}

IsDigit(c) == c \in Digits

IsSpace(c) == c \in Whitespace

\* s[i+1 .. j], for offsets 0 <= i <= j <= Len(s)
Slice(s, i, j) == SubSeq(s, i + 1, j)

Max(S) == CHOOSE x \in S : \A y \in S : y <= x

Min(S) == CHOOSE x \in S : \A y \in S : x <= y

\* str.strip(): drop the leading and the trailing whitespace.
strip(s) ==
    LET keep == {i \in 1..Len(s) : ~IsSpace(s[i])}
    IN  IF keep = {} THEN <<>> ELSE SubSeq(s, Min(keep), Max(keep))

\* str.isspace(): non-empty and whitespace only.
isspace(s) == s # <<>> /\ \A i \in 1..Len(s) : IsSpace(s[i])

\* str.endswith('.')
endswith_period(s) == s # <<>> /\ s[Len(s)] = "."

\* the comma left as it is
replace_nothing(s) == s

\* str.replace(',', '.')
replace_comma(s) == [i \in 1..Len(s) |-> IF s[i] = "," THEN "." ELSE s[i]]

\* ------------------------------------------------------------ regex pieces
\* Offsets are 0..Len(s); a piece matched from offset i ends at an offset.

\* \d+ from offset i: the offsets it can end at.
DigitEnds(s, i) == {e \in (i + 1)..Len(s) : \A p \in (i + 1)..e : IsDigit(s[p])}

\* \s+ from offset i: the offsets it can end at.
SpaceEnds(s, i) == {e \in (i + 1)..Len(s) : \A p \in (i + 1)..e : IsSpace(s[p])}

\* .*? from offset i: the offsets it can end at ('.' is any character but "\n").
DotEnds(s, i) == {e \in i..Len(s) : \A p \in (i + 1)..e : s[p] # "\n"}

\* digits, optionally one '.' or ',' and digits, from offset i to the end of s
DigitsToEnd(s, i) ==
    \/ Len(s) \in DigitEnds(s, i)
    \/ \E e \in DigitEnds(s, i) :
          /\ e < Len(s)
          /\ s[e + 1] \in {".", ","}
          /\ Len(s) \in DigitEnds(s, e + 1)

\* -?\d+(?:[.,]\d+)?$: a sign let into the price
SignedNumberToEnd(s, i) ==
    \/ DigitsToEnd(s, i)
    \/ i < Len(s) /\ s[i + 1] = "-" /\ DigitsToEnd(s, i + 1)

\* \d+(?:[.,]\d+)?$ from offset i: whether it matches up to the end of s.
NumberToEnd(s, i) == DigitsToEnd(s, i)

\* \s*(\d+(?:[.,]\d+)?)$: no whitespace needed before the price
PriceStartsNoGap(s, k) == {w \in SpaceEnds(s, k) \cup {k} : NumberToEnd(s, w)}

\* \s+(\d+(?:[.,]\d+)?)$ from offset k: the offsets where group 3 can start.
PriceStarts(s, k) == {w \in SpaceEnds(s, k) : NumberToEnd(s, w)}

\* \s+(\d+(?:[.,]\d+)?)$: the price no longer optional
TailMatchesPriceOnly(s, k) == PriceStarts(s, k) # {}

\* (?:\s+(\d+(?:[.,]\d+)?))?$ from offset k
TailMatches(s, k) == PriceStarts(s, k) # {} \/ k = Len(s)

\* ------------------------------------------------------------ the patterns
\* re.match returns the first match in backtracking order: a greedy piece
\* ends at the largest offset from which the rest of the pattern can still
\* match, a lazy piece at the smallest.  A match is a record; "no match"
\* (None) is NoMatch.  An optional group that took no part is <<>>, one
\* that did is <<text>>.

NoMatch == [matched |-> FALSE]

\* Padrão 1: (\d+)\s+(.*?)(?:\s+(\d+(?:[.,]\d+)?))?$
\* offsets k where group 2, started at j, can end
BodyEndsA(s, j) == {k \in DotEnds(s, j) : TailMatches(s, k)}

\* \s* in place of \s+ after the quantity
GapEndsAOptional(s, i) == {j \in SpaceEnds(s, i) \cup {i} : BodyEndsA(s, j) # {}}

\* offsets j where \s+, started at i, can end
GapEndsA(s, i) == {j \in SpaceEnds(s, i) : BodyEndsA(s, j) # {}}

\* offsets i where group 1 can end
QtyEndsA(s) == {i \in DigitEnds(s, 0) : GapEndsA(s, i) # {}}

Group3(s, k) ==
    IF PriceStarts(s, k) # {}
    THEN << Slice(s, Max(PriceStarts(s, k)), Len(s)) >>
    ELSE <<>>

\* (.*) in place of (.*?): the body takes the most characters
GreedyEnd(ends) == Max(ends)

\* .*? takes the fewest characters
LazyEnd(ends) == Min(ends)

PatternA(s) ==
    IF QtyEndsA(s) = {} THEN NoMatch
    ELSE LET i == Max(QtyEndsA(s))
             j == Max(GapEndsA(s, i))
             k == LazyEnd(BodyEndsA(s, j))
         IN  [matched |-> TRUE,
              g1 |-> Slice(s, 0, i),
              g2 |-> Slice(s, j, k),
              g3 |-> Group3(s, k)]

\* Padrão 2: (.*?)(?:\s+(\d+(?:[.,]\d+)?))?$
BodyEndsB(s) == {k \in DotEnds(s, 0) : TailMatches(s, k)}

PatternB(s) ==
    IF BodyEndsB(s) = {} THEN NoMatch
    ELSE LET k == LazyEnd(BodyEndsB(s))
         IN  [matched |-> TRUE,
              g1 |-> Slice(s, 0, k),
              g2 |-> Group3(s, k)]

\* -------------------------------------------------------------- conversions

DigitValue(c) == IF c = "1" THEN 1 ELSE 0

RECURSIVE DecimalValue(_)
DecimalValue(ds) ==
    IF ds = <<>> THEN 0
    ELSE 10 * DecimalValue(SubSeq(ds, 1, Len(ds) - 1)) + DigitValue(ds[Len(ds)])

AllDigits(s) == s # <<>> /\ \A p \in 1..Len(s) : IsDigit(s[p])

\* The text without its sign, and the sign.
Unsigned(t) == IF t # <<>> /\ t[1] = "-" THEN Tail(t) ELSE t

Sign(t) == IF t # <<>> /\ t[1] = "-" THEN -1 ELSE 1

\* int(text) accepts surrounding whitespace, a sign and digits; anything else
\* raises ValueError, and so does a text longer than the interpreter's limit
\* on digit strings.
IntRaises(t) ==
    \/ ~AllDigits(Unsigned(strip(t)))
    \/ Len(Unsigned(strip(t))) > IntMaxStrDigits

int(t) == Sign(strip(t)) * DecimalValue(Unsigned(strip(t)))

\* A price is a decimal number: its sign, the digits before the point without
\* leading zeros and the digits after it without trailing zeros, so that
\* equal numbers are equal records ('01.10' and '1.1').  The rounding of
\* float() to the nearest double is left out: the tokens of the inputs are
\* shorter than the 15 digits a double holds exactly.
Zero == [negative |-> FALSE, whole |-> <<>>, frac |-> <<>>]

DropLeadingZeros(ds) ==
    LET nz == {p \in 1..Len(ds) : ds[p] # "0"}
    IN  IF nz = {} THEN <<>> ELSE SubSeq(ds, Min(nz), Len(ds))

DropTrailingZeros(ds) ==
    LET nz == {p \in 1..Len(ds) : ds[p] # "0"}
    IN  IF nz = {} THEN <<>> ELSE SubSeq(ds, 1, Max(nz))

\* The mantissas float() accepts: digits with at most one '.', and at least
\* one digit.
IsMantissa(m) ==
    /\ \E p \in 1..Len(m) : IsDigit(m[p])
    /\ \A p \in 1..Len(m) : IsDigit(m[p]) \/ m[p] = "."
    /\ Cardinality({p \in 1..Len(m) : m[p] = "."}) <= 1

MantissaValue(m) ==
    LET dots == {p \in 1..Len(m) : m[p] = "."}
        p == IF dots = {} THEN Len(m) + 1 ELSE Min(dots)
    IN  [negative |-> FALSE,
         whole |-> DropLeadingZeros(SubSeq(m, 1, p - 1)),
         frac |-> DropTrailingZeros(SubSeq(m, p + 1, Len(m)))]

\* float(text) accepts surrounding whitespace, a sign and a mantissa; anything
\* else (a comma, a letter) raises ValueError.
FloatRaises(t) == ~IsMantissa(Unsigned(strip(t)))

float(t) ==
    LET v == MantissaValue(Unsigned(strip(t)))
    IN  [v EXCEPT !.negative = Sign(strip(t)) = -1 /\ v # Zero]

\* ------------------------------------------------- one line of the for loop
\* The body of the loop (lines 30-82) on one raw line: what it does to the
\* products list and what it prints.

\* price_str taken from the group of the body (group 2 of pattern 1, group 1
\* of pattern 2) in place of the group of the price
ExtractBodyAsPrice(line) ==
    LET a == PatternA(line)
        b == PatternB(line)
    IN  IF a.matched
        THEN IF IntRaises(a.g1)
             THEN [raised |-> TRUE, pattern |-> "A"]
             ELSE [raised |-> FALSE, pattern |-> "A", quantity |-> int(a.g1),
                   name |-> strip(a.g2), price_str |-> <<a.g2>>]
        ELSE IF b.matched
             THEN [raised |-> FALSE, pattern |-> "B", quantity |-> 1,
                   name |-> strip(b.g1), price_str |-> <<b.g1>>]
             ELSE [raised |-> FALSE, pattern |-> "C", quantity |-> 1,
                   name |-> line, price_str |-> <<>>]

\* lines 37-55: quantity, name and price_str, or the exception raised, and
\* the branch taken ("A": line 52, "B": line 48, "C": line 44)
Extract(line) ==
    LET a == PatternA(line)
        b == PatternB(line)
    IN  IF a.matched
        THEN IF IntRaises(a.g1)
             THEN [raised |-> TRUE, pattern |-> "A"]
             ELSE [raised |-> FALSE, pattern |-> "A", quantity |-> int(a.g1),
                   name |-> strip(a.g2), price_str |-> a.g3]
        ELSE IF b.matched
             THEN [raised |-> FALSE, pattern |-> "B", quantity |-> 1,
                   name |-> strip(b.g1), price_str |-> b.g2]
             ELSE [raised |-> FALSE, pattern |-> "C", quantity |-> 1,
                   name |-> line, price_str |-> <<>>]

\* lines 57-66: the price of a price_str (<<>> is None)
Price(price_str) ==
    IF price_str # <<>> /\ price_str[1] # <<>>
    THEN IF FloatRaises(replace_comma(price_str[1]))
         THEN Zero
         ELSE float(replace_comma(price_str[1]))
    ELSE Zero

\* name.rstrip('.'): every trailing period removed
RECURSIVE CleanNameAllPeriods(_)
CleanNameAllPeriods(name) ==
    IF endswith_period(strip(name))
    THEN CleanNameAllPeriods(SubSeq(strip(name), 1, Len(strip(name)) - 1))
    ELSE strip(name)

\* lines 68-71: the name cleaned
CleanName(name) ==
    IF endswith_period(strip(name))
    THEN strip(SubSeq(strip(name), 1, Len(strip(name)) - 1))
    ELSE strip(name)

\* the append without its guard
ValidNameAlways(name) == TRUE

\* line 74: the guard of the append
ValidName(name) == name # <<>> /\ ~isspace(name)

\* len(line) < 2 in place of len(line) < 3
TooShortBelowTwo(line) == line = <<>> \/ Len(line) < 2

\* line 31: the lines the loop ignores
TooShort(line) == line = <<>> \/ Len(line) < 3

\* The outcome of the loop body on a raw line: "skip" (line 32), "emit"
\* (line 75), "drop" (line 74 false) or "fail" (line 82).
LineOutcome(raw) ==
    LET line == strip(raw)
        x == Extract(line)
    IN  IF TooShort(line) THEN [kind |-> "skip"]
        ELSE IF x.raised THEN [kind |-> "fail", line |-> line]
        ELSE IF ValidName(CleanName(x.name))
             THEN [kind |-> "emit",
                   product |-> [quantity |-> x.quantity,
                                name |-> CleanName(x.name),
                                price |-> Price(x.price_str)]]
             ELSE [kind |-> "drop"]

\* The locals of the loop body once a raw line is through lines 30-55: none
\* for a line that line 32 skips.
NoLocals == [pattern |-> "none"]

LineLocals(raw) == IF TooShort(strip(raw)) THEN NoLocals ELSE Extract(strip(raw))

\* ---------------------------------------------------------------- the state

VARIABLES
    calls,        \* the files the caller still has to parse, in order
    file,         \* the lines of the file the current call has open
    line_number,  \* enumerate(file, 1): the number of the last line read
    products,     \* the list the current call builds
    stdout,       \* what print() has written, oldest first
    pc,           \* "idle" outside parse_inventory_file, "loop" inside it
    returned,     \* the finished calls: [input |-> file, output |-> list]
    locals        \* match, quantity, name and price_str of the last line read

parservars == <<calls, file, line_number, products, stdout, pc, returned, locals>>

\* The database (lines 87-115), the program start and the server.
VARIABLES
    products_table,      \* the rows of products, oldest first
    products_id_seq,     \* the last id the SERIAL of products.id gave
    transactions_table,  \* the rows of transactions, oldest first
    inventory,           \* the inventory file: <<>> (none) or <<its lines>>
    starts,              \* the starts of the program still to come
    main,                \* the program start: its place and its locals
    workers,             \* the threads of the server
    received,            \* the requests received so far
    handlers             \* per thread: the handler's place and its locals

dbvars == <<products_table, products_id_seq, transactions_table, inventory,
            starts, main, workers, received, handlers>>

vars == <<parservars, dbvars>>

\* ------------------------------------------------------------------ inputs

\* Every raw line of at most n characters.
Strings(n) == UNION {[1..k -> Alphabet] : k \in 0..n}

\* Longer lines, put together from a quantity, a long run of digits, a
\* blank, a word and a price written with a comma.
Pieces ==
    { <<"1", "0">>,
      <<"1", "1", "1">>,
      <<" ">>,
      <<"a">>,
      <<"1", ",", "1", "0">> }

RECURSIVE Concat(_)
Concat(ps) == IF ps = <<>> THEN <<>> ELSE Head(ps) \o Concat(Tail(ps))

Composed == {Concat(ps) : ps \in UNION {[1..k -> Pieces] : k \in 0..MaxPieces}}

\* Raw lines with their terminator.
Terminated == {l \o <<"\n">> : l \in Strings(MaxLen - 2)}

\* The raw lines of the single-line inputs.
Lines == Strings(MaxLen) \cup Composed \cup Terminated

\* Lines for the files of several lines: one the loop skips, one it turns
\* into a record, one it drops, one that raises.
SampleLines ==
    { <<"a">>,
      <<"1", " ", "a", " ", "1">>,
      <<"1", " ", ".">>,
      <<"1", "1", "1", "1", "1", " ", "a">> }

Files == UNION {[1..k -> SampleLines] : k \in 0..MaxLines}

\* The caller parses a file, another one, and then the two in one file.
Schedules == {<<xs, ys, xs \o ys>> : xs \in Files, ys \in Files}

TypeOK ==
    /\ pc \in {"idle", "loop", "raised"}
    /\ line_number \in 0..Len(file)

\* ----------------------------------------------------------------- actions

\* products a list of the module, made once: a call goes on with the list
\* the call before left
OpenKeepingList ==
    /\ pc = "idle"
    /\ calls # <<>>
    /\ file' = Head(calls)
    /\ calls' = Tail(calls)
    /\ line_number' = 0
    /\ pc' = "loop"
    /\ locals' = NoLocals
    /\ UNCHANGED <<products, stdout, returned>>
    /\ UNCHANGED dbvars

\* lines 26-28: products = [] and the file is opened
Open ==
    /\ pc = "idle"
    /\ calls # <<>>
    /\ file' = Head(calls)
    /\ calls' = Tail(calls)
    /\ products' = <<>>
    /\ line_number' = 0
    /\ pc' = "loop"
    /\ locals' = NoLocals
    /\ UNCHANGED <<stdout, returned>>
    /\ UNCHANGED dbvars

\* a product whose name is already in the list is not added again
EmitUnlessListed(list, product) ==
    IF \E i \in 1..Len(list) : list[i].name = product.name
    THEN list
    ELSE Append(list, product)

\* line 75: products.append
Emit(list, product) == Append(list, product)

\* line 82: the diagnostic of a line that raised
Diagnostic(n, line) == <<"Erro ao processar linha", n, line>>

\* no try around the line: what it raises leaves parse_inventory_file
Escapes(kind) == IF kind = "fail" THEN "raised" ELSE "loop"

\* lines 34 and 81: the try is inside the loop and catches every Exception,
\* so whatever the line did the call stays in the loop ("raised": the
\* exception leaves parse_inventory_file)
Caught(kind) == "loop"

\* a try around the whole loop: a line that raises ends the reading
ContinueUnlessRaised(n, kind, last) == IF kind = "fail" THEN last ELSE n + 1

\* line 29: the for loop goes on with the next line, whatever the line did
\* (n: the lines read before this one, last: the number of the last line)
Continue(n, kind, last) == n + 1

\* lines 29-82: one turn of the for loop
ProcessLine ==
    /\ pc = "loop"
    /\ line_number < Len(file)
    /\ \E o \in {LineOutcome(file[line_number + 1])} :
           /\ products' = IF o.kind = "emit" THEN Emit(products, o.product)
                          ELSE products
           /\ stdout' = IF o.kind = "fail"
                        THEN Append(stdout, Diagnostic(line_number + 1, o.line))
                        ELSE stdout
           /\ line_number' = Continue(line_number, o.kind, Len(file))
           /\ pc' = Caught(o.kind)
    /\ locals' = LineLocals(file[line_number + 1])
    /\ UNCHANGED <<calls, file, returned>>
    /\ UNCHANGED dbvars

\* lines 84-85: the loop is over, the total is printed, the list returned
Return ==
    /\ pc = "loop"
    /\ line_number = Len(file)
    /\ stdout' = Append(stdout, <<"Total de produtos importados", Len(products)>>)
    /\ returned' = Append(returned, [input |-> file, output |-> products])
    /\ pc' = "idle"
    /\ UNCHANGED <<calls, file, line_number, products, locals>>
    /\ UNCHANGED dbvars

Next == Open \/ ProcessLine \/ Return

\* The program not started, no server and empty tables.
NoDatabase ==
    /\ products_table = <<>>
    /\ products_id_seq = 0
    /\ transactions_table = <<>>
    /\ inventory = <<>>
    /\ starts = 0
    /\ main = [pc |-> "off"]
    /\ workers = 0
    /\ received = 0
    /\ handlers = <<>>

Init ==
    /\ NoDatabase
    /\ calls \in Schedules
    /\ file = <<>>
    /\ line_number = 0
    /\ products = <<>>
    /\ stdout = <<>>
    /\ pc = "idle"
    /\ returned = <<>>
    /\ locals = NoLocals

Spec == Init /\ [][Next]_vars

\* One call on a file of one line, for every line of Lines.
InitLine ==
    /\ NoDatabase
    /\ calls \in {<< <<raw>> >> : raw \in Lines}
    /\ file = <<>>
    /\ line_number = 0
    /\ products = <<>>
    /\ stdout = <<>>
    /\ pc = "idle"
    /\ returned = <<>>
    /\ locals = NoLocals

SpecLine == InitLine /\ [][Next]_vars

\* ------------------------------------------------------------ the database
\* Every connection is in autocommit (lines 18-22): a statement is a
\* transaction of its own, committed when execute() returns, and a statement
\* that raises changes nothing.  A REAL column rounds a price to single
\* precision; the rows here hold the price as given.

\* a value an INTEGER column does not hold: the statement raises
OutOfRange(n) == n > IntegerMax \/ n < -IntegerMax - 1

\* the keys the parameters of the INSERT read (lines 130 and 241)
ProductKeys == {"name", "quantity", "price"}

\* lines 128-131 and 239-242: what makes the INSERT of a product raise, a
\* missing key (KeyError) or a quantity out of the column's range
InsertRaises(product) ==
    \/ ~(ProductKeys \subseteq DOMAIN product)
    \/ OutOfRange(product.quantity)

\* INSERT INTO products (name, quantity, price): the row it adds
ProductRow(id, product) ==
    [id |-> id, name |-> product.name, quantity |-> product.quantity,
     price |-> product.price]

\* what a row of products holds besides its id
Stored(table) ==
    [i \in 1..Len(table) |->
        [name |-> table[i].name, quantity |-> table[i].quantity,
         price |-> table[i].price]]

\* the rows of products with a given id (one at most)
RowsOf(table, id) == {i \in 1..Len(table) : table[i].id = id}

\* --------------------------------------------------------- program start

\* The products of the forms of /add_product.
AddedProducts == { [name |-> <<"b">>, quantity |-> 0, price |-> Zero] }

\* the import whatever the table holds
ShouldImportAlways(count) == TRUE

\* lines 124 and 445: the import goes on only if the table has no row
ShouldImport(count) == count = 0

\* lines 423-451 and 459-460: the program is started, once more after it
\* stopped or crashed; it counts the rows of products and parses the
\* inventory file if there are none and the file exists
Main ==
    /\ main.pc \in {"off", "serving", "crashed"}
    /\ pc = "idle"
    /\ starts > 0
    /\ starts' = starts - 1
    /\ IF ShouldImport(Len(products_table))
       THEN /\ stdout' = Append(stdout, <<"Banco de dados vazio">>)
            /\ IF inventory # <<>>
               THEN /\ calls' = <<inventory[1]>>
                    /\ main' = [pc |-> "parse"]
               ELSE /\ calls' = calls
                    /\ main' = [pc |-> "serving"]
       ELSE /\ stdout' = Append(stdout, <<"Banco de dados ja contem", Len(products_table)>>)
            /\ calls' = calls
            /\ main' = [pc |-> "serving"]
    /\ UNCHANGED <<file, line_number, products, pc, returned, locals>>
    /\ UNCHANGED <<products_table, products_id_seq, transactions_table,
                   inventory, workers, received, handlers>>

\* lines 117-124: parse_inventory_file has returned and
\* import_products_to_db counts the rows of products
ImportProductsCount ==
    /\ main.pc = "parse"
    /\ pc = "idle"
    /\ calls = <<>>
    /\ main' = [pc |-> "import",
                products |-> returned[Len(returned)].output,
                count |-> Len(products_table),
                i |-> 0]
    /\ UNCHANGED parservars
    /\ UNCHANGED <<products_table, products_id_seq, transactions_table,
                   inventory, starts, workers, received, handlers>>

\* lines 126-131: the next product of the list is inserted; an INSERT that
\* raises ends the program, with the rows inserted so far committed
ImportProductsInsert ==
    /\ main.pc = "import"
    /\ ShouldImport(main.count)
    /\ main.i < Len(main.products)
    /\ IF InsertRaises(main.products[main.i + 1])
       THEN /\ main' = [pc |-> "crashed"]
            /\ UNCHANGED <<products_table, products_id_seq>>
       ELSE /\ products_table' =
                  Append(products_table,
                         ProductRow(products_id_seq + 1, main.products[main.i + 1]))
            /\ products_id_seq' = products_id_seq + 1
            /\ main' = [main EXCEPT !.i = main.i + 1]
    /\ UNCHANGED parservars
    /\ UNCHANGED <<transactions_table, inventory, starts, workers, received, handlers>>

\* lines 133-135 and 455-458: the import is over (or was not to be done),
\* products.json is written and the total printed
ImportProductsReturn ==
    /\ main.pc = "import"
    /\ ~ShouldImport(main.count) \/ main.i = Len(main.products)
    /\ main' = [pc |-> "serving"]
    /\ stdout' = Append(stdout, <<"Total de produtos importados", Len(main.products)>>)
    /\ UNCHANGED <<calls, file, line_number, products, pc, returned, locals>>
    /\ UNCHANGED <<products_table, products_id_seq, transactions_table,
                   inventory, starts, workers, received, handlers>>

\* lines 252-270: POST /add_product handled by an instance of the program
\* that is serving while this one starts: one INSERT into products
AddProduct ==
    /\ received < MaxRequests
    /\ received' = received + 1
    /\ \E product \in AddedProducts :
           /\ products_table' =
                  Append(products_table, ProductRow(products_id_seq + 1, product))
           /\ products_id_seq' = products_id_seq + 1
    /\ UNCHANGED parservars
    /\ UNCHANGED <<transactions_table, inventory, starts, main, workers, handlers>>

NextMain ==
    \/ Main
    \/ AddProduct
    \/ Open
    \/ ProcessLine
    \/ Return
    \/ ImportProductsCount
    \/ ImportProductsInsert
    \/ ImportProductsReturn

\* Lines for the inventory file: one that gives a record, one that gives a
\* record with another name, one whose quantity an INTEGER does not hold,
\* one that is skipped.
InventoryLines ==
    { <<"1", " ", "a", " ", "1">>,
      <<"a", "a", "a">>,
      <<"1", "0", " ", "a">>,
      <<"a">> }

Inventories == UNION {[1..k -> InventoryLines] : k \in 0..(MaxLines + 1)}

\* The products a table holds when the program starts: what an earlier
\* start, an update or an import left there.
StoredProducts ==
    { [name |-> <<"a">>, quantity |-> q, price |-> Zero] : q \in 0..IntegerMax }

Tables ==
    {<<>>} \cup {<<ProductRow(1, x)>> : x \in StoredProducts}
           \cup {<<ProductRow(2, x), ProductRow(3, y)>> :
                     x \in StoredProducts, y \in StoredProducts}

LastId(table) == IF table = <<>> THEN 0 ELSE table[Len(table)].id

ParserIdle ==
    /\ calls = <<>>
    /\ file = <<>>
    /\ line_number = 0
    /\ products = <<>>
    /\ stdout = <<>>
    /\ pc = "idle"
    /\ returned = <<>>
    /\ locals = NoLocals

InitMain ==
    /\ ParserIdle
    /\ products_table \in Tables
    /\ products_id_seq = LastId(products_table)
    /\ transactions_table = <<>>
    /\ inventory \in {<<>>} \cup {<<f>> : f \in Inventories}
    /\ starts = MaxStarts
    /\ main = [pc |-> "off"]
    /\ workers = 0
    /\ received = 0
    /\ handlers = <<>>

SpecMain == InitMain /\ [][NextMain]_vars

\* -------------------------------------------------------------- the server
\* A thread handles one request at a time; its handler is a record: its
\* place (pc), the request, its locals and, once it has returned ("done"),
\* the status of the response.  The fields number and before hold the
\* place of the request among the requests received and the rows of
\* products when it came in; no handler reads them.

Threads == 1..workers

Idle == [pc |-> "idle"]

\* what a handler that raises becomes: the response is 500
Raised(h) == [pc |-> "done", route |-> h.route, request |-> h.request,
              number |-> h.number, before |-> h.before, status |-> 500]

\* --------------------------------------------- update_product (169-203)

\* The forms of POST /update/<product_id>: quantity is a text or is not
\* there (<<>>), type is 'add', 'remove' or is not there.
UpdateRequests ==
    [ product_id : 1..2,
      quantity : {<<>>, << <<"1">> >>, << <<"1", "0">> >>, << <<"a">> >>},
      type : {<<>>, <<"add">>, <<"remove">>} ]

\* line 172: int(request.form.get('quantity', 0))
FormQuantityRaises(r) == r.quantity # <<>> /\ IntRaises(r.quantity[1])

FormQuantity(r) == IF r.quantity = <<>> THEN 0 ELSE int(r.quantity[1])

\* lines 172-176: the request comes in and the form is read
UpdateProductRequest ==
    /\ received < MaxRequests
    /\ \E t \in Threads, r \in UpdateRequests :
           /\ handlers[t].pc \in {"idle", "done"}
           /\ handlers' =
                  [handlers EXCEPT ![t] =
                      IF FormQuantityRaises(r)
                      THEN [pc |-> "done", route |-> "update", request |-> r,
                            number |-> received + 1,
                            before |-> products_table, status |-> 500]
                      ELSE [pc |-> "select", route |-> "update", request |-> r,
                            number |-> received + 1,
                            before |-> products_table,
                            new_quantity |-> FormQuantity(r),
                            transaction_type |-> r.type]]
    /\ received' = received + 1
    /\ UNCHANGED parservars
    /\ UNCHANGED <<products_table, products_id_seq, transactions_table,
                   inventory, starts, main, workers>>

\* lines 179-180: SELECT quantity; fetchone() is None when no row has the
\* id, and None[0] raises
UpdateProductSelect ==
    /\ \E t \in Threads :
           /\ handlers[t].pc = "select"
           /\ LET h == handlers[t]
                  rows == RowsOf(products_table, h.request.product_id)
              IN  handlers' =
                     [handlers EXCEPT ![t] =
                         IF rows = {} THEN Raised(h)
                         ELSE [pc |-> "update", route |-> h.route,
                               request |-> h.request, number |-> h.number, before |-> h.before,
                               new_quantity |-> h.new_quantity,
                               transaction_type |-> h.transaction_type,
                               current_quantity |->
                                   products_table[CHOOSE i \in rows : TRUE].quantity]]
    /\ UNCHANGED parservars
    /\ UNCHANGED <<products_table, products_id_seq, transactions_table,
                   inventory, starts, main, workers, received>>

\* the difference stored as it is
UpdatedQuantityUnclamped(transaction_type, current_quantity, new_quantity) ==
    IF transaction_type = <<"add">>
    THEN current_quantity + new_quantity
    ELSE current_quantity - new_quantity

\* lines 183-186: the new quantity
UpdatedQuantity(transaction_type, current_quantity, new_quantity) ==
    IF transaction_type = <<"add">>
    THEN current_quantity + new_quantity
    ELSE IF current_quantity - new_quantity > 0
         THEN current_quantity - new_quantity
         ELSE 0

\* UPDATE products SET quantity = q WHERE id = id
SetQuantity(table, id, q) ==
    [i \in 1..Len(table) |->
        IF table[i].id = id THEN [table[i] EXCEPT !.quantity = q] ELSE table[i]]

\* lines 183-192: the new quantity is computed and the UPDATE run; it raises
\* for a quantity the column does not hold
UpdateProductUpdate ==
    /\ \E t \in Threads :
           /\ handlers[t].pc = "update"
           /\ LET h == handlers[t]
                  updated_quantity ==
                      UpdatedQuantity(h.transaction_type, h.current_quantity,
                                      h.new_quantity)
              IN  IF OutOfRange(updated_quantity)
                  THEN /\ handlers' = [handlers EXCEPT ![t] = Raised(h)]
                       /\ products_table' = products_table
                  ELSE /\ handlers' = [handlers EXCEPT ![t].pc = "insert"]
                       /\ products_table' =
                              SetQuantity(products_table, h.request.product_id,
                                          updated_quantity)
    /\ UNCHANGED parservars
    /\ UNCHANGED <<products_id_seq, transactions_table, inventory, starts,
                   main, workers, received>>

\* lines 106-110: what makes the INSERT into transactions raise, a type
\* that is NULL, a quantity the column does not hold, a product_id no row
\* of products has
TransactionRaises(table, product_id, type, quantity) ==
    \/ type = <<>>
    \/ OutOfRange(quantity)
    \/ RowsOf(table, product_id) = {}

\* lines 195-203: the transaction is recorded and the response is the
\* redirect
UpdateProductInsert ==
    /\ \E t \in Threads :
           /\ handlers[t].pc = "insert"
           /\ handlers[t].route = "update"
           /\ LET h == handlers[t]
              IN  IF TransactionRaises(products_table, h.request.product_id,
                                       h.transaction_type, h.new_quantity)
                  THEN /\ handlers' = [handlers EXCEPT ![t] = Raised(h)]
                       /\ transactions_table' = transactions_table
                  ELSE /\ handlers' =
                              [handlers EXCEPT ![t] =
                                  [pc |-> "done", route |-> h.route,
                                   request |-> h.request, number |-> h.number, before |-> h.before,
                                   status |-> 302]]
                       /\ transactions_table' =
                              Append(transactions_table,
                                     [product_id |-> h.request.product_id,
                                      type |-> h.transaction_type[1],
                                      quantity |-> h.new_quantity])
    /\ UNCHANGED parservars
    /\ UNCHANGED <<products_table, products_id_seq, inventory, starts, main,
                   workers, received>>

\* --------------------------------------------------- api_import (224-249)

\* The product entries of a JSON body: two that are complete, one whose
\* quantity an INTEGER does not hold, one without 'quantity' and 'price'.
GoodEntry == [name |-> <<"a">>, quantity |-> 1, price |-> Zero]

OtherEntry == [name |-> <<"b">>, quantity |-> 2, price |-> Zero]

BigEntry == [name |-> <<"b">>, quantity |-> IntegerMax + 1, price |-> Zero]

NameOnlyEntry == [name |-> <<"b">>]

\* The bodies of POST /api/import: no JSON (<<>>), or the list under
\* 'products'.
ImportBodies ==
    { <<>>,
      << <<>> >>,
      << <<GoodEntry>> >>,
      << <<GoodEntry, OtherEntry>> >>,
      << <<GoodEntry, NameOnlyEntry>> >>,
      << <<GoodEntry, BigEntry>> >>,
      << <<NameOnlyEntry>> >> }

\* lines 227-231: the request comes in; get_json() gives no dict for a body
\* that is not JSON and line 228 raises, before any statement
ApiImportRequest ==
    /\ received < MaxRequests
    /\ \E t \in Threads, body \in ImportBodies :
           /\ handlers[t].pc \in {"idle", "done"}
           /\ handlers' =
                  [handlers EXCEPT ![t] =
                      IF body = <<>>
                      THEN [pc |-> "done", route |-> "import", request |-> body,
                            number |-> received + 1,
                            before |-> products_table, status |-> 500]
                      ELSE [pc |-> "delete", route |-> "import", request |-> body,
                            number |-> received + 1,
                            before |-> products_table,
                            products |-> body[1], i |-> 0]]
    /\ received' = received + 1
    /\ UNCHANGED parservars
    /\ UNCHANGED <<products_table, products_id_seq, transactions_table,
                   inventory, starts, main, workers>>

\* line 110: a row of products that a transaction refers to cannot be
\* deleted, the DELETE raises
Referenced(table, transactions) ==
    \E k \in 1..Len(transactions) : RowsOf(table, transactions[k].product_id) # {}

\* line 234: DELETE FROM products
ApiImportDelete ==
    /\ \E t \in Threads :
           /\ handlers[t].pc = "delete"
           /\ IF Referenced(products_table, transactions_table)
              THEN /\ handlers' = [handlers EXCEPT ![t] = Raised(handlers[t])]
                   /\ products_table' = products_table
              ELSE /\ handlers' = [handlers EXCEPT ![t].pc = "insert"]
                   /\ products_table' = <<>>
    /\ UNCHANGED parservars
    /\ UNCHANGED <<products_id_seq, transactions_table, inventory, starts,
                   main, workers, received>>

\* lines 237-241: the next product of the body is inserted; a KeyError or
\* an error of the database ends the handler at line 248
ApiImportInsert ==
    /\ \E t \in Threads :
           /\ handlers[t].pc = "insert"
           /\ handlers[t].route = "import"
           /\ handlers[t].i < Len(handlers[t].products)
           /\ LET h == handlers[t]
                  product == h.products[h.i + 1]
              IN  IF InsertRaises(product)
                  THEN /\ handlers' = [handlers EXCEPT ![t] = Raised(h)]
                       /\ UNCHANGED <<products_table, products_id_seq>>
                  ELSE /\ handlers' = [handlers EXCEPT ![t].i = h.i + 1]
                       /\ products_table' =
                              Append(products_table,
                                     ProductRow(products_id_seq + 1, product))
                       /\ products_id_seq' = products_id_seq + 1
    /\ UNCHANGED parservars
    /\ UNCHANGED <<transactions_table, inventory, starts, main, workers, received>>

\* lines 243-246: every product is in, the response is success
ApiImportReturn ==
    /\ \E t \in Threads :
           /\ handlers[t].pc = "insert"
           /\ handlers[t].route = "import"
           /\ handlers[t].i = Len(handlers[t].products)
           /\ handlers' =
                  [handlers EXCEPT ![t] =
                      [pc |-> "done", route |-> "import",
                       request |-> handlers[t].request,
                       number |-> handlers[t].number,
                       before |-> handlers[t].before, status |-> 200]]
    /\ UNCHANGED parservars
    /\ UNCHANGED <<products_table, products_id_seq, transactions_table,
                   inventory, starts, main, workers, received>>

NextWeb ==
    \/ UpdateProductRequest
    \/ UpdateProductSelect
    \/ UpdateProductUpdate
    \/ UpdateProductInsert
    \/ ApiImportRequest
    \/ ApiImportDelete
    \/ ApiImportInsert
    \/ ApiImportReturn

\* The program has started and serves with n threads.
Serving(n) ==
    /\ ParserIdle
    /\ products_table \in Tables
    /\ products_id_seq = LastId(products_table)
    /\ transactions_table = <<>>
    /\ inventory = <<>>
    /\ starts = 0
    /\ main = [pc |-> "serving"]
    /\ workers = n
    /\ received = 0
    /\ handlers = [t \in 1..n |-> Idle]

\* One request at a time.
InitWeb == Serving(1)

SpecWeb == InitWeb /\ [][NextWeb]_vars

\* Two threads: a request can come in while another is being handled.
InitThreads == Serving(2)

SpecThreads == InitThreads /\ [][NextWeb]_vars

\* -------------------------------------------------------------- properties
\* What the properties say of a line, read off the line's text and not off
\* the patterns' matches.

\* a numeric token: digits, optionally one '.' or ',' followed by digits
IsNumericToken(t) ==
    \/ AllDigits(t)
    \/ \E p \in 1..Len(t) :
          /\ t[p] \in {".", ","}
          /\ AllDigits(SubSeq(t, 1, p - 1))
          /\ AllDigits(SubSeq(t, p + 1, Len(t)))

\* the value of a numeric token, its comma read as a decimal point
TokenValue(t) == MantissaValue([i \in 1..Len(t) |-> IF t[i] = "," THEN "." ELSE t[i]])

\* a body that begins and ends with a non-whitespace character
IsBody(b) == b # <<>> /\ ~IsSpace(b[1]) /\ ~IsSpace(b[Len(b)])

\* the line begins with digits followed by whitespace
BeginsWithQuantity(s) ==
    \E d \in 1..(Len(s) - 1) : AllDigits(Slice(s, 0, d)) /\ IsSpace(s[d + 1])

\* The ways to read s as D W B W' N: D = s[1..d], W = s[d+1..w],
\* B = s[w+1..b], W' = s[b+1..v], N = s[v+1..].
IsDWBWN(s, d, w, b, v) ==
    /\ 0 < d /\ d < w /\ w < b /\ b < v /\ v < Len(s)
    /\ AllDigits(Slice(s, 0, d))
    /\ isspace(Slice(s, d, w))
    /\ IsBody(Slice(s, w, b))
    /\ isspace(Slice(s, b, v))
    /\ IsNumericToken(Slice(s, v, Len(s)))

\* the offsets where a D, a D W, a W N or an N of s can end or start
DEnds(s) == {d \in 1..Len(s) : AllDigits(Slice(s, 0, d))}

DWEnds(s) == {<<d, w>> \in DEnds(s) \X (1..Len(s)) : d < w /\ isspace(Slice(s, d, w))}

NStarts(s) == {v \in 1..(Len(s) - 1) : IsNumericToken(Slice(s, v, Len(s)))}

WNStarts(s) == {<<b, v>> \in (1..Len(s)) \X NStarts(s) : b < v /\ isspace(Slice(s, b, v))}

RecordDWBWN(s, d, w, b, v) ==
    [quantity |-> DecimalValue(Slice(s, 0, d)),
     name |-> CleanName(Slice(s, w, b)),
     price |-> TokenValue(Slice(s, v, Len(s)))]

\* the stripped text of the only line of a one-line file
TheLine == strip(file[1])

\* the only line of a one-line file has just been read
LineRead == pc = "loop" /\ line_number = 1

\* C1, as stated: every line D W B W' N gives exactly one record, with
\* quantity the value of D, name B cleaned and price the value of N.
C1_AsStated ==
    LineRead =>
        \A dw \in DWEnds(TheLine), bv \in WNStarts(TheLine) :
            IsDWBWN(TheLine, dw[1], dw[2], bv[1], bv[2])
                => products = << RecordDWBWN(TheLine, dw[1], dw[2], bv[1], bv[2]) >>

\* C1, amended: every line D W B W' N whose D is no longer than int()'s
\* limit on digit strings and whose B is not empty once cleaned (B is not a
\* lone '.') gives exactly one record, with quantity the value of D, name B
\* cleaned and price the value of N, numeric tokens inside B staying in the
\* name; the other lines D W B W' N give no record.
C1_QuantityBodyPrice ==
    LineRead =>
        \A dw \in DWEnds(TheLine), bv \in WNStarts(TheLine) :
            IsDWBWN(TheLine, dw[1], dw[2], bv[1], bv[2])
                => products =
                      IF /\ dw[1] <= IntMaxStrDigits
                         /\ CleanName(Slice(TheLine, dw[2], bv[1])) # <<>>
                      THEN << RecordDWBWN(TheLine, dw[1], dw[2], bv[1], bv[2]) >>
                      ELSE <<>>

\* '10 10 1,10': the inner '10' stays the name, the price is 1.1
C1_Witness ==
    /\ line_number = 1
    /\ TheLine = <<"1", "0", " ", "1", "0", " ", "1", ",", "1", "0">>
    /\ products = << [quantity |-> 10, name |-> <<"1", "0">>,
                      price |-> [negative |-> FALSE, whole |-> <<"1">>, frac |-> <<"1">>]] >>

\* The ways to read s as B W N: B = s[1..b], W = s[b+1..v], N = s[v+1..].
IsBWN(s, b, v) ==
    /\ 0 < b /\ b < v /\ v < Len(s)
    /\ isspace(Slice(s, b, v))
    /\ IsNumericToken(Slice(s, v, Len(s)))

RecordBWN(s, b, v) ==
    [quantity |-> 1,
     name |-> CleanName(Slice(s, 0, b)),
     price |-> TokenValue(Slice(s, v, Len(s)))]

\* C2, as stated: every line of 3 characters or more that does not begin
\* with digits and whitespace and reads B W N gives a record with quantity 1,
\* name B cleaned and price the value of N, a comma read as a decimal point.
C2_AsStated ==
    LineRead /\ Len(TheLine) >= 3 /\ ~BeginsWithQuantity(TheLine) =>
        \A bv \in WNStarts(TheLine) :
            IsBWN(TheLine, bv[1], bv[2])
                => products = << RecordBWN(TheLine, bv[1], bv[2]) >>

\* C2, amended: such a line gives that record when B is not empty once
\* cleaned (B is not a lone '.'), and no record otherwise.
C2_FallbackBodyPrice ==
    LineRead /\ Len(TheLine) >= 3 /\ ~BeginsWithQuantity(TheLine) =>
        \A bv \in WNStarts(TheLine) :
            IsBWN(TheLine, bv[1], bv[2])
                => products =
                      IF CleanName(Slice(TheLine, 0, bv[1])) # <<>>
                      THEN << RecordBWN(TheLine, bv[1], bv[2]) >>
                      ELSE <<>>

\* 'a 1,10': quantity 1, name 'a', price 1.1
C2_Witness ==
    /\ line_number = 1
    /\ TheLine = <<"a", " ", "1", ",", "1", "0">>
    /\ products = << [quantity |-> 1, name |-> <<"a">>,
                      price |-> [negative |-> FALSE, whole |-> <<"1">>, frac |-> <<"1">>]] >>

\* C3: reading a line whose stripped text is shorter than 3 characters
\* (empty included) adds no record and prints nothing.
C3_ShortLineIgnored ==
    [][ (line_number' = line_number + 1 /\ Len(strip(file[line_number'])) < 3)
            => (products' = products /\ stdout' = stdout) ]_vars

\* the lone digit '1', padded with blanks, has been read and has left nothing
C3_Witness ==
    /\ pc = "idle"
    /\ Len(returned) = 1
    /\ returned[1].input = << <<" ", "1", " ">> >>
    /\ returned[1].output = <<>>
    /\ stdout = << <<"Total de produtos importados", 0>> >>

\* What call number c printed: the places in stdout of its diagnostics, which
\* come before its total and after the total of the call before.
Totals == {i \in 1..Len(stdout) : stdout[i][1] = "Total de produtos importados"}

TotalOf(c) == CHOOSE i \in Totals : Cardinality({j \in Totals : j <= i}) = c

DiagnosticsOf(c) ==
    {i \in 1..Len(stdout) :
        /\ stdout[i][1] = "Erro ao processar linha"
        /\ i < TotalOf(c)
        /\ c > 1 => i > TotalOf(c - 1)}

\* the lines of call c: the ones too short, the ones a diagnostic names, and
\* the ones left without a name
SkippedLines(c) ==
    {i \in 1..Len(returned[c].input) : Len(strip(returned[c].input[i])) < 3}

FailedLines(c) == {stdout[i][2] : i \in DiagnosticsOf(c)}

DroppedLines(c) ==
    {i \in 1..Len(returned[c].input) :
        /\ i \notin SkippedLines(c) \cup FailedLines(c)
        /\ CleanName(Extract(strip(returned[c].input[i])).name) = <<>>}

\* C4: a call returns as many records as its file has lines, less the lines
\* too short, the lines that raised (one diagnostic each, naming the line)
\* and the lines dropped for an empty name: a line that raises does not keep
\* the later lines from being read.
C4_OneRecordPerRemainingLine ==
    \A c \in 1..Len(returned) :
        /\ Cardinality(DiagnosticsOf(c)) = Cardinality(FailedLines(c))
        /\ FailedLines(c) \subseteq 1..Len(returned[c].input)
        /\ Len(returned[c].output) =
              Len(returned[c].input) - Cardinality(SkippedLines(c))
                  - Cardinality(FailedLines(c)) - Cardinality(DroppedLines(c))

\* a file whose first line raises and whose second line gives a record
C4_Witness ==
    /\ Len(returned) >= 1
    /\ returned[1].input = << <<"1", "1", "1", "1", "1", " ", "a">>,
                              <<"1", " ", "a", " ", "1">> >>
    /\ returned[1].output = << [quantity |-> 1, name |-> <<"a">>,
                                price |-> [negative |-> FALSE, whole |-> <<"1">>,
                                           frac |-> <<>>]] >>
    /\ stdout[1] = <<"Erro ao processar linha", 1, <<"1", "1", "1", "1", "1", " ", "a">> >>

\* C5: parsing two files one after the other in one file returns the records
\* of the first followed by the records of the second, in input order: a
\* line's record depends on the line alone, and the records of equal lines
\* stay separate.
C5_ConcatenationOfParses ==
    \A a, b, c \in 1..Len(returned) :
        returned[c].input = returned[a].input \o returned[b].input
            => returned[c].output = returned[a].output \o returned[b].output

\* '1 a 1' and '1 a 1' again, parsed apart and together: the same record twice
C5_Witness ==
    /\ Len(returned) = 3
    /\ returned[1].input = << <<"1", " ", "a", " ", "1">> >>
    /\ returned[2].input = << <<"1", " ", "a", " ", "1">> >>
    /\ returned[3].input = << <<"1", " ", "a", " ", "1">>, <<"1", " ", "a", " ", "1">> >>
    /\ Len(returned[3].output) = 2
    /\ returned[3].output[1] = returned[3].output[2]
    /\ returned[3].output = returned[1].output \o returned[2].output

\* C6 (records): every record of the list has a name that is not empty, holds
\* a non-whitespace character and neither begins nor ends with whitespace.
\* C6 (drop): a line of 3 characters or more that does not raise and whose
\* name is empty once cleaned, such as '11 .', leaves no record and prints
\* nothing.
C6_NamesNotBlank ==
    /\ \A i \in 1..Len(products) :
          /\ products[i].name # <<>>
          /\ \E p \in 1..Len(products[i].name) : ~IsSpace(products[i].name[p])
          /\ ~IsSpace(products[i].name[1])
          /\ ~IsSpace(products[i].name[Len(products[i].name)])
    /\ LineRead /\ Len(TheLine) >= 3 =>
          /\ (~Extract(TheLine).raised /\ CleanName(Extract(TheLine).name) = <<>>)
                => (products = <<>> /\ stdout = <<>>)
          /\ TheLine = <<"1", "1", " ", ".">>
                => (products = <<>> /\ stdout = <<>>)

\* '11 .' has been read and has left nothing
C6_Witness ==
    /\ pc = "loop"
    /\ line_number = 1
    /\ TheLine = <<"1", "1", " ", ".">>
    /\ products = <<>>
    /\ stdout = <<>>

\* the body trimmed, then its one final '.' removed and the rest trimmed
OnePeriodOff(body) ==
    LET t == strip(body)
    IN  IF t # <<>> /\ t[Len(t)] = "." THEN strip(SubSeq(t, 1, Len(t) - 1)) ELSE t

HasNoSpace(s) == \A p \in 1..Len(s) : ~IsSpace(s[p])

\* C7: the name of a record is the extracted body trimmed and, if it then
\* ends with '.', without that one '.' and trimmed again: 'aa.' gives 'aa',
\* 'aa..' gives 'aa.', and a line of one word that does not end with '.' is
\* its own name.
C7_OneTrailingPeriodRemoved ==
    LineRead /\ Len(TheLine) >= 3 =>
        /\ ~Extract(TheLine).raised =>
              products =
                  IF OnePeriodOff(Extract(TheLine).name) # <<>>
                  THEN << [quantity |-> Extract(TheLine).quantity,
                           name |-> OnePeriodOff(Extract(TheLine).name),
                           price |-> Price(Extract(TheLine).price_str)] >>
                  ELSE <<>>
        /\ HasNoSpace(TheLine) =>
              /\ Len(products) = 1
              /\ products[1].name =
                    IF TheLine[Len(TheLine)] = "."
                    THEN SubSeq(TheLine, 1, Len(TheLine) - 1)
                    ELSE TheLine

\* 'aa..' gives the name 'aa.'
C7_Witness ==
    /\ line_number = 1
    /\ TheLine = <<"a", "a", ".", ".">>
    /\ products = << [quantity |-> 1, name |-> <<"a", "a", ".">>, price |-> Zero] >>

\* the last whitespace-separated token of s starts after offset LastGap(s)
\* (0: s holds no whitespace)
LastGap(s) ==
    IF HasNoSpace(s) THEN 0 ELSE Max({p \in 1..Len(s) : IsSpace(s[p])})

LastToken(s) == Slice(s, LastGap(s), Len(s))

\* what comes before the last token and the whitespace before it
BeforeLastToken(s) == strip(Slice(s, 0, LastGap(s)))

\* a trailing numeric token is isolated: the last token is numeric and is
\* preceded by whitespace and a body, which is more than the leading
\* quantity of a line that begins with digits and whitespace
TokenIsolated(s) ==
    /\ LastGap(s) > 0
    /\ IsNumericToken(LastToken(s))
    /\ BeforeLastToken(s) # <<>>
    /\ BeginsWithQuantity(s) => ~AllDigits(BeforeLastToken(s))

\* C8: the price of the record of a line is 0.0 when no trailing numeric
\* token is isolated from the line (no whitespace before a last token, or a
\* last token that is not numeric, or nothing but the quantity before it),
\* and the value of the isolated token otherwise.
C8_PriceZeroUnlessIsolated ==
    LineRead /\ products # <<>> =>
        /\ Len(products) = 1
        /\ (LastGap(TheLine) = 0 \/ ~IsNumericToken(LastToken(TheLine)))
              => products[1].price = Zero
        /\ products[1].price =
              IF TokenIsolated(TheLine) THEN TokenValue(LastToken(TheLine)) ELSE Zero

\* '1 a -': the last token is no number, it stays in the name, the price is 0.0
C8_Witness ==
    /\ line_number = 1
    /\ TheLine = <<"1", " ", "a", " ", "-">>
    /\ products = << [quantity |-> 1, name |-> <<"a", " ", "-">>, price |-> Zero] >>

\* C9: no exception leaves parse_inventory_file, whatever the lines: a call
\* that has opened its file is never left by an exception, each of its steps
\* either reads the next line of the file or returns the list built so far,
\* and it has never read more lines than the file holds, so that it returns
\* after as many steps as the file has lines.
C9_NoExceptionEscapes ==
    /\ [](pc # "raised")
    /\ [](pc = "loop" => line_number \in 0..Len(file))
    /\ [][ pc = "loop" =>
              \/ /\ pc' = "loop"
                 /\ line_number' = line_number + 1
                 /\ file' = file
              \/ /\ pc' = "idle"
                 /\ line_number = Len(file)
                 /\ returned' = Append(returned, [input |-> file, output |-> products]) ]_vars

\* a call on a file whose only line raises has returned the empty list
C9_Witness ==
    /\ pc = "idle"
    /\ Len(returned) >= 1
    /\ returned[1].input = << <<"1", "1", "1", "1", "1", " ", "a">> >>
    /\ returned[1].output = <<>>
    /\ stdout[1][1] = "Erro ao processar linha"

\* C10: every record has a quantity that is an integer >= 0 and a price that
\* is a number >= 0.
C10_QuantityAndPriceNotNegative ==
    \A i \in 1..Len(products) :
        /\ products[i].quantity \in Nat
        /\ ~products[i].price.negative

\* 'a -1': the '-1' stays in the name, quantity 1, price 0.0
C10_Witness ==
    /\ line_number = 1
    /\ TheLine = <<"a", " ", "-", "1">>
    /\ products = << [quantity |-> 1, name |-> <<"a", " ", "-", "1">>, price |-> Zero] >>

\* C11: two calls on the same sequence of lines return the same sequence of
\* records, whatever was parsed and printed between them: nothing of a call
\* is left for the next one, and the records keep the order of the lines.
C11_SameInputSameOutput ==
    \A a, b \in 1..Len(returned) :
        returned[a].input = returned[b].input
            => returned[a].output = returned[b].output

\* a file of a line that raises and a line that gives a record, parsed twice
\* running with the same list returned
C11_Witness ==
    /\ Len(returned) >= 2
    /\ returned[1].input = << <<"1", "1", "1", "1", "1", " ", "a">>,
                              <<"1", " ", "a", " ", "1">> >>
    /\ returned[2].input = returned[1].input
    /\ Len(returned[1].output) = 1
    /\ returned[2].output = returned[1].output
    /\ Cardinality({i \in 1..Len(stdout) : stdout[i][1] = "Erro ao processar linha"}) = 2

\* the digits a line begins with (none: the empty string)
LeadingDigits(s) == IF DEnds(s) = {} THEN <<>> ELSE Slice(s, 0, Max(DEnds(s)))

StartsWith(s, prefix) == Len(prefix) <= Len(s) /\ SubSeq(s, 1, Len(prefix)) = prefix

\* C13, as stated: a line of 3 characters or more is handled by pattern 1
\* exactly when it begins with digits followed by whitespace, and then
\* quantity is the value of all the leading digits; every other line is
\* handled by pattern 2 with quantity 1 and its leading digits in the name.
C13_AsStated ==
    LineRead /\ Len(TheLine) >= 3 =>
        IF BeginsWithQuantity(TheLine)
        THEN /\ locals.pattern = "A"
             /\ ~locals.raised
             /\ locals.quantity = DecimalValue(LeadingDigits(TheLine))
        ELSE /\ locals.pattern = "B"
             /\ ~locals.raised
             /\ locals.quantity = 1
             /\ StartsWith(locals.name, LeadingDigits(TheLine))

\* C13, amended: the same, but that a line whose leading digits are more
\* than int() converts raises at the conversion: it has no quantity, leaves
\* no record and is reported.  A record, when the line leaves one, has the
\* quantity of the line.
C13_PatternPrecedence ==
    LineRead /\ Len(TheLine) >= 3 =>
        /\ IF BeginsWithQuantity(TheLine)
           THEN /\ locals.pattern = "A"
                /\ IF Len(LeadingDigits(TheLine)) <= IntMaxStrDigits
                   THEN /\ ~locals.raised
                        /\ locals.quantity = DecimalValue(LeadingDigits(TheLine))
                        /\ stdout = <<>>
                   ELSE /\ locals.raised
                        /\ products = <<>>
                        /\ stdout = << Diagnostic(1, TheLine) >>
           ELSE /\ locals.pattern = "B"
                /\ ~locals.raised
                /\ locals.quantity = 1
                /\ StartsWith(locals.name, LeadingDigits(TheLine))
                /\ LeadingDigits(TheLine) # <<>> =>
                      /\ Len(products) = 1
                      /\ StartsWith(products[1].name, LeadingDigits(TheLine))
        /\ products # <<>> => products[1].quantity = locals.quantity

\* '11a 1': digits with no whitespace after them, so quantity 1 and the
\* digits in the name
C13_Witness ==
    /\ line_number = 1
    /\ TheLine = <<"1", "1", "a", " ", "1">>
    /\ locals.pattern = "B"
    /\ products = << [quantity |-> 1, name |-> <<"1", "1", "a">>,
                      price |-> [negative |-> FALSE, whole |-> <<"1">>, frac |-> <<>>]] >>

\* C14: line 44 (the whole line taken as the name) is never reached: every
\* line of 3 characters or more that pattern 1 does not match is matched by
\* pattern 2, and no line is handled by neither.
C14_PatternCUnreachable ==
    /\ locals.pattern # "C"
    /\ LineRead /\ Len(TheLine) >= 3 =>
          /\ locals.pattern \in {"A", "B"}
          /\ ~PatternA(TheLine).matched =>
                /\ PatternB(TheLine).matched
                /\ locals.pattern = "B"

\* '-.a' and its line terminator: no digits, no price, the terminator
\* stripped, and pattern 2 has matched it
C14_Witness ==
    /\ line_number = 1
    /\ file[1] = <<"-", ".", "a", "\n">>
    /\ ~PatternA(TheLine).matched
    /\ locals = [raised |-> FALSE, pattern |-> "B", quantity |-> 1,
                 name |-> <<"-", ".", "a">>, price_str |-> <<>>]

\* the line is a quantity, whitespace and a numeric token, and nothing else
IsQuantityAndNumber(s) ==
    /\ BeginsWithQuantity(s)
    /\ LastGap(s) > 0
    /\ AllDigits(BeforeLastToken(s))
    /\ IsNumericToken(LastToken(s))

\* C15: the body a pattern captures is never empty, and a price is captured
\* only as the last token of a line that has whitespace and a body before
\* it.  So a line that is only a numeric token gives the record named by
\* the line, with quantity 1 and price 0.0, and a line that is only a
\* quantity and a numeric token gives the quantity, the token as the name
\* and price 0.0.
C15_PriceNeedsBody ==
    LineRead /\ Len(TheLine) >= 3 /\ ~locals.raised =>
        /\ locals.name # <<>>
        /\ locals.price_str # <<>> =>
              /\ locals.price_str[1] = LastToken(TheLine)
              /\ LastGap(TheLine) > 0
              /\ TokenIsolated(TheLine)
              /\ locals.name = (IF locals.pattern = "A"
                                THEN strip(Slice(BeforeLastToken(TheLine),
                                                 Len(LeadingDigits(TheLine)),
                                                 Len(BeforeLastToken(TheLine))))
                                ELSE BeforeLastToken(TheLine))
        /\ IsNumericToken(TheLine) =>
              products = << [quantity |-> 1, name |-> TheLine, price |-> Zero] >>
        /\ IsQuantityAndNumber(TheLine) =>
              products = << [quantity |-> locals.quantity,
                             name |-> LastToken(TheLine), price |-> Zero] >>

\* '10 1,10': quantity 10, the name '1,10' and no price
C15_Witness ==
    /\ line_number = 1
    /\ TheLine = <<"1", "0", " ", "1", ",", "1", "0">>
    /\ locals.price_str = <<>>
    /\ products = << [quantity |-> 10, name |-> <<"1", ",", "1", "0">>,
                      price |-> Zero] >>

\* a step of the program start that ends import_products_to_db, called when
\* products had no row
ImportEnds == main.pc = "import" /\ main.count = 0 /\ main'.pc # "import"

\* a step that is not the INSERT of /add_product
OwnStep == received' = received

\* C12 (insert-only): the program start changes products only inside
\* import_products_to_db called when the table had no row, and a change is
\* the row of the next parsed record added after the rows there are.
\* C12 (skipped): import_products_to_db called when the table has a row
\* inserts nothing, and a program started when the table has a row neither
\* parses nor imports: the rows stay as they are.
C12_FrameOfImport ==
    /\ [][ OwnStep /\ products_table' # products_table =>
              /\ main.pc = "import"
              /\ main.count = 0
              /\ main.i < Len(main.products)
              /\ main'.i = main.i + 1
              /\ products_table' =
                    Append(products_table,
                           ProductRow(products_id_seq + 1, main.products[main.i + 1])) ]_vars
    /\ [][ OwnStep /\ main.pc = "import" /\ main.count > 0 =>
              /\ products_table' = products_table
              /\ main'.pc = "serving" ]_vars
    /\ [][ OwnStep /\ main.pc # "import" /\ products_table # <<>> =>
              /\ products_table' = products_table
              /\ main.pc \in {"off", "serving", "crashed"} => main'.pc = "serving" ]_vars

TheHandler == handlers[1]

TheQuantity ==
    products_table[CHOOSE i \in RowsOf(products_table, TheHandler.request.product_id) : TRUE].quantity

ClaimedQuantity ==
    IF TheHandler.transaction_type = <<"add">>
    THEN TheQuantity + TheHandler.new_quantity
    ELSE IF TheQuantity >= TheHandler.new_quantity
         THEN TheQuantity - TheHandler.new_quantity
         ELSE 0

Updating == TheHandler.pc = "update" /\ TheHandler.route = "update"

Recording == TheHandler.pc = "insert" /\ TheHandler.route = "update"

TheTransaction ==
    [product_id |-> TheHandler.request.product_id,
     type |-> TheHandler.transaction_type[1],
     quantity |-> TheHandler.new_quantity]

NoQuantityNegative == \A i \in 1..Len(products_table) : products_table[i].quantity >= 0

\* C16, as stated: a request for a product of quantity q >= 0 with an amount
\* n >= 0 stores q + n for 'add' and max(0, q - n) otherwise, no stored
\* quantity is ever negative, and the request appends one transaction row,
\* with its type and n.
C16_AsStated ==
    /\ [] NoQuantityNegative
    /\ [][ Updating =>
              /\ products_table' =
                    SetQuantity(products_table, TheHandler.request.product_id,
                                ClaimedQuantity)
              /\ TheHandler'.pc = "insert" ]_vars
    /\ [][ Recording =>
              /\ transactions_table' = Append(transactions_table, TheTransaction)
              /\ TheHandler'.status = 302 ]_vars

\* C16, amended.  No stored quantity is ever negative.  The UPDATE stores
\* q + n for 'add' and max(0, q - n) otherwise (no type included), but an
\* 'add' whose q + n the INTEGER column does not hold stores nothing: the
\* UPDATE raises and the request ends with no transaction row.  After the
\* UPDATE the request appends one transaction row, with its type and n,
\* but a request with no type or with an n the column does not hold
\* appends none: the INSERT raises and the new quantity stays stored.  No
\* other step touches the transactions.
C16_StockNeverNegative ==
    /\ [] NoQuantityNegative
    /\ [][ Updating =>
              IF ClaimedQuantity <= IntegerMax
              THEN /\ products_table' =
                         SetQuantity(products_table, TheHandler.request.product_id,
                                     ClaimedQuantity)
                   /\ TheHandler'.pc = "insert"
              ELSE /\ TheHandler.transaction_type = <<"add">>
                   /\ products_table' = products_table
                   /\ TheHandler'.pc = "done"
                   /\ TheHandler'.status = 500 ]_vars
    /\ [][ Recording =>
              /\ products_table' = products_table
              /\ IF TheHandler.transaction_type # <<>>
                       /\ TheHandler.new_quantity <= IntegerMax
                 THEN /\ transactions_table' = Append(transactions_table, TheTransaction)
                      /\ TheHandler'.status = 302
                 ELSE /\ transactions_table' = transactions_table
                      /\ TheHandler'.status = 500 ]_vars
    /\ [][ ~Recording => transactions_table' = transactions_table ]_vars

\* one unit taken from a product that had none: 0 is stored and the
\* transaction says 'remove', 1
C16_Witness ==
    /\ TheHandler.pc = "done"
    /\ TheHandler.route = "update"
    /\ TheHandler.status = 302
    /\ TheHandler.before = << ProductRow(1, [name |-> <<"a">>, quantity |-> 0, price |-> Zero]) >>
    /\ products_table = TheHandler.before
    /\ transactions_table = << [product_id |-> 1, type |-> "remove", quantity |-> 1] >>

\* The two threads have each handled an update of the same product, to the
\* redirect, and these are the only requests there were.
BothUpdated ==
    /\ workers = 2
    /\ \A t \in Threads :
          /\ handlers[t].pc = "done"
          /\ handlers[t].route = "update"
          /\ handlers[t].status = 302
    /\ handlers[1].request.product_id = handlers[2].request.product_id
    /\ handlers[1].number # handlers[2].number

\* the quantity of the product of request r in a table
QuantityIn(table, r) ==
    table[CHOOSE i \in RowsOf(table, r.product_id) : TRUE].quantity

\* request r applied to the quantity q
Applied(r, q) ==
    IF r.type = <<"add">> THEN q + FormQuantity(r)
    ELSE IF q >= FormQuantity(r) THEN q - FormQuantity(r) ELSE 0

FirstReceived == CHOOSE t \in Threads : handlers[t].number = 1

\* C17, as stated: when two updates of one product have both been handled,
\* whether one after the other or at the same time, the stored quantity is
\* what the two requests give when applied one after the other, in one
\* order or the other, to the quantity stored before the first came in.
C17_AsStated ==
    BothUpdated =>
        LET a == handlers[1].request
            b == handlers[2].request
            q == QuantityIn(handlers[FirstReceived].before, a)
        IN  QuantityIn(products_table, a)
                \in {Applied(b, Applied(a, q)), Applied(a, Applied(b, q))}

\* C18, as stated: when api_import has answered with success the table
\* holds the products of the request, in order, and nothing else; when it
\* has answered with the error (500) the table holds the rows it held when
\* the request came in.
C18_AsStated ==
    TheHandler.pc = "done" /\ TheHandler.route = "import" =>
        /\ TheHandler.status = 200 => Stored(products_table) = TheHandler.request[1]
        /\ TheHandler.status = 500 => products_table = TheHandler.before

====
